---- MODULE Spec2Model ----
(***************************************************************************)
(* Supervised discretization (main.py): load_data, the greedy cut-selection *)
(* loop of discretize_data under its two criteria, the interval mapping and *)
(* the statistics, driven as the script does it: load_data, then            *)
(* compare_criteria, which runs discretize_data with the main criterion and *)
(* then with the secondary criterion on the same table.                     *)
(*                                                                          *)
(* Numbers.  An attribute cell is a float64.  The cells of the model are    *)
(* the float64 numbers of one binade, B + k * ulp, and a cell stores k.     *)
(* The sum of two such numbers has the spacing 2 * ulp, so that             *)
(* (a + b) / 2 is exact when ka + kb is even and is rounded to the          *)
(* neighbour with the even significand when ka + kb is odd (IEEE 754        *)
(* round-half-to-even).  Tables whose cells are all even are the tables in  *)
(* which every midpoint is exact, as for the integer-valued columns of the  *)
(* tests.                                                                   *)
(*                                                                          *)
(* Rows are numbered from 1 (pandas numbers them from 0); a column is named *)
(* by its position, the decision column being the last.                     *)
(***************************************************************************)
EXTENDS Integers, Sequences, FiniteSets, TLC

VARIABLES
    file,                     \* the .csv file handed to load_data
    pc,                       \* position of the script
    data,                     \* the DataFrame returned by load_data
    error,                    \* the exception load_data raised, or "none"
    use_secondary_criterion,  \* argument of the running discretize_data
    object_pairs,             \* discretize_data: list of discordant pairs
    cuts,                     \* discretize_data: attr -> sorted list of cuts
    separated_pairs,          \* discretize_data: set of separated pairs
    stats,                    \* discretize_data: running statistics
    best,                     \* discretize_data: winner of the last round
    main_result,              \* compare_criteria: results of the two runs
    main_stats,
    secondary_result,
    secondary_stats

vars == <<file, pc, data, error, use_secondary_criterion, object_pairs, cuts,
          separated_pairs, stats, best, main_result, main_stats,
          secondary_result, secondary_stats>>

run_vars == <<object_pairs, cuts, separated_pairs, stats, best>>

(***************************************************************************)
(* Bounds of the inputs.                                                    *)
(***************************************************************************)
MaxRows == 3

MaxVal == 3

MaxAttrs == 2

MaxBadRows == 2

WideRows == 4

WideVal == 2

Values == 0..MaxVal

Decisions == {"A", "B"}

NumericDecisions == 0..1

(***************************************************************************)
(* Helpers on Python lists.                                                 *)
(***************************************************************************)
Range(s) == {s[k] : k \in 1..Len(s)}

\* sorted(set(values)): the k-th element has k - 1 elements of S below it
SortedSet(S) ==
    [k \in 1..Cardinality(S) |->
        CHOOSE x \in S : Cardinality({y \in S : y < x}) = k - 1]

\* sorted(list): the nondecreasing rearrangement, duplicates kept; the k-th
\* element x has fewer than k elements below it and at least k not above it
sorted(s) ==
    [k \in 1..Len(s) |->
        CHOOSE x \in Range(s) :
            /\ Cardinality({i \in 1..Len(s) : s[i] < x}) < k
            /\ k <= Cardinality({i \in 1..Len(s) : s[i] <= x})]

(***************************************************************************)
(* The DataFrame.                                                           *)
(***************************************************************************)
NoData == [columns |-> <<>>, rows |-> <<>>]

Column(d, c) == [i \in 1..Len(d.rows) |-> d.rows[i][c]]

\* data.select_dtypes(include=["float64", "int64"]).columns
numeric_cols(d) ==
    {c \in 1..Len(d.columns) : d.columns[c] \in {"float64", "int64"}}

\* prepare_for_discretization: (attribute_columns, decision_column)
attribute_columns(d) == [k \in 1..(Len(d.columns) - 1) |-> k]

decision_column(d) == Len(d.columns)

RECURSIVE combinations(_, _, _)
\* itertools.combinations(data.iterrows(), 2), from the pair (i, j) on
combinations(i, j, n) ==
    IF i >= n THEN <<>>
    ELSE IF j > n THEN combinations(i + 1, i + 2, n)
    ELSE <<<<i, j>>>> \o combinations(i, j + 1, n)

\* the pairs of rows whose decisions are equal
generate_equal_pairs(d, decision_col) ==
    SelectSeq(combinations(1, 2, Len(d.rows)),
              LAMBDA p : d.rows[p[1]][decision_col] = d.rows[p[2]][decision_col])

\* every pair of rows, whatever the decisions
generate_all_pairs(d, decision_col) == combinations(1, 2, Len(d.rows))

\* the discordant pairs in both orders, (i, j) and (j, i)
generate_symmetric_pairs(d, decision_col) ==
    LET pairs == SelectSeq(combinations(1, 2, Len(d.rows)),
                     LAMBDA p : d.rows[p[1]][decision_col]
                                    # d.rows[p[2]][decision_col])
    IN  pairs \o [k \in 1..Len(pairs) |-> <<pairs[k][2], pairs[k][1]>>]

\* generate_object_pairs, lines 66-72
generate_object_pairs(d, decision_col) ==
    SelectSeq(combinations(1, 2, Len(d.rows)),
              LAMBDA p : d.rows[p[1]][decision_col] # d.rows[p[2]][decision_col])

\* (unique_values[i] + unique_values[i + 1]) / 2 in float64
Midpoint(a, b) ==
    LET s == a + b
        m == s \div 2
    IN  IF s % 2 = 0 THEN m
        ELSE IF m % 2 = 0 THEN m ELSE m + 1

\* find_possible_cuts, lines 75-81; unique_values is computed once
find_possible_cuts(values) ==
    CHOOSE possible_cuts \in
        {[i \in 1..(Len(unique_values) - 1) |->
             Midpoint(unique_values[i], unique_values[i + 1])] :
         unique_values \in {SortedSet(Range(values))}} : TRUE

check_separation(row1, row2, cs) ==
    \E k \in 1..Len(cs) :
        \/ (row1 <= cs[k] /\ cs[k] < row2)
        \/ (row2 <= cs[k] /\ cs[k] < row1)

(***************************************************************************)
(* discretize_data: one round of the greedy loop.                           *)
(***************************************************************************)
\* float("inf"), the cuts_count of the initial best
Infinity == 1000000

InitialBest ==
    [gain |-> 0, attr |-> "None", cut |-> "None", new_separations |-> {},
     cuts_count |-> Infinity]

\* the pairs a trial cut list separates, those already separated included
SeparationsCountedAgain(attr, temp_cuts) ==
    {p \in Range(object_pairs) :
        check_separation(data.rows[p[1]][attr], data.rows[p[2]][attr], temp_cuts)}

\* lines 137-142: the pairs not yet separated that the trial cut list separates
NewSeparations(attr, temp_cuts) ==
    {p \in Range(object_pairs) :
        /\ p \notin separated_pairs
        /\ check_separation(data.rows[p[1]][attr], data.rows[p[2]][attr], temp_cuts)}

\* lines 143-144 and the record handed to best.update
TrialRecord(attr, cut, temp_cuts, new_separations) ==
    [gain |-> Cardinality(new_separations), attr |-> attr, cut |-> cut,
     new_separations |-> new_separations, cuts_count |-> Len(temp_cuts)]

\* lines 136-144: the trial of one candidate cut of one attribute; temp_cuts
\* and new_separations are computed once each
Trial(attr, cut) ==
    CHOOSE t \in
        UNION {{TrialRecord(attr, cut, temp_cuts, new_separations) :
                   new_separations \in {NewSeparations(attr, temp_cuts)}} :
               temp_cuts \in {sorted(cuts[attr] \o <<cut>>)}} : TRUE

\* a comparison that keeps the first trial with a positive gain
BetterFirstGain(t, b) == t.gain > 0 /\ b.gain = 0

\* a comparison that takes a trial under the secondary criterion only
BetterSecondaryOnly(t, b) ==
    /\ use_secondary_criterion
    /\ t.gain > 0
    /\ \/ t.cuts_count < b.cuts_count
       \/ (t.cuts_count = b.cuts_count /\ t.gain > b.gain)

\* a comparison that lets a later trial of the same gain replace the best
BetterOrEqual(t, b) ==
    IF use_secondary_criterion
    THEN t.gain > 0 /\ (\/ t.cuts_count < b.cuts_count
                        \/ (t.cuts_count = b.cuts_count /\ t.gain > b.gain))
    ELSE t.gain > 0 /\ t.gain >= b.gain

\* a comparison by the gain alone, under either criterion
BetterByGainOnly(t, b) == t.gain > b.gain

\* a comparison that prefers the smallest positive gain
BetterSmallestGain(t, b) == t.gain > 0 /\ (b.gain = 0 \/ t.gain < b.gain)

\* lines 146-161: does the trial t replace the best b
Better(t, b) ==
    IF use_secondary_criterion
    THEN t.gain > 0 /\ (\/ t.cuts_count < b.cuts_count
                        \/ (t.cuts_count = b.cuts_count /\ t.gain > b.gain))
    ELSE t.gain > b.gain

\* best.update(...) when the trial is better, the best as it was otherwise
Updated(t, b) == IF Better(t, b) THEN t ELSE b

RECURSIVE ScanCuts(_, _, _, _)
\* for cut in possible_cuts, from the k-th on; the trial and the best so far
\* are computed once and bound before they are compared
ScanCuts(b, attr, possible_cuts, k) ==
    IF k > Len(possible_cuts) THEN b
    ELSE ScanCuts(CHOOSE u \in {Updated(t, bb) :
                                   t \in {Trial(attr, possible_cuts[k])},
                                   bb \in {b}} : TRUE,
                  attr, possible_cuts, k + 1)

RECURSIVE ScanAttributes(_, _)
\* for attr in attributes
ScanAttributes(b, a) ==
    IF a > Len(attribute_columns(data)) THEN b
    ELSE ScanAttributes(
             CHOOSE u \in
                 {ScanCuts(bb, attribute_columns(data)[a], possible_cuts, 1) :
                  bb \in {b},
                  possible_cuts \in
                      {find_possible_cuts(Column(data, attribute_columns(data)[a]))}} :
                 TRUE,
             a + 1)

\* the best of one pass of the while loop
RoundBest == ScanAttributes(InitialBest, 1)

(***************************************************************************)
(* discretize_data: the interval labels and the statistics.                 *)
(***************************************************************************)
RECURSIVE ScanIntervalStrict(_, _, _, _)
\* a scan that sends a value equal to a cut to the right of the cut
ScanIntervalStrict(value, attr_cuts, k, left) ==
    IF k > Len(attr_cuts) THEN "(" \o left \o "; inf)"
    ELSE IF value < attr_cuts[k]
         THEN "(" \o left \o "; " \o ToString(attr_cuts[k]) \o "]"
         ELSE ScanIntervalStrict(value, attr_cuts, k + 1, ToString(attr_cuts[k]))

RECURSIVE ScanInterval(_, _, _, _)
\* lines 201-208: for cut in attr_cuts ... else
ScanInterval(value, attr_cuts, k, left) ==
    IF k > Len(attr_cuts) THEN "(" \o left \o "; inf)"
    ELSE IF value <= attr_cuts[k]
         THEN "(" \o left \o "; " \o ToString(attr_cuts[k]) \o "]"
         ELSE ScanInterval(value, attr_cuts, k + 1, ToString(attr_cuts[k]))

Interval(value, attr_cuts) ==
    IF attr_cuts = <<>> THEN "(-inf; inf)"
    ELSE ScanInterval(value, attr_cuts, 1, "-inf")

\* the dtype of a cell of dtype t in the rows data.iterrows() yields: a row
\* of numeric cells only is a float64 Series when some cell is a float64
RowDtype(d, t) ==
    IF /\ Range(d.columns) \subseteq {"float64", "int64"}
       /\ "float64" \in Range(d.columns)
    THEN "float64" ELSE t

\* a DataFrame built from the rows in reverse order
DiscretizedReversed(d, cs) ==
    [columns |-> [c \in 1..Len(d.columns) |->
                     IF c < decision_column(d) THEN "object"
                     ELSE RowDtype(d, d.columns[c])],
     rows |-> [i \in 1..Len(d.rows) |->
                  [c \in 1..Len(d.columns) |->
                      IF c < decision_column(d)
                      THEN Interval(d.rows[Len(d.rows) + 1 - i][c], cs[c])
                      ELSE d.rows[Len(d.rows) + 1 - i][c]]]]

\* lines 192-213: the discretized DataFrame
Discretized(d, cs) ==
    [columns |-> [c \in 1..Len(d.columns) |->
                     IF c < decision_column(d) THEN "object"
                     ELSE RowDtype(d, d.columns[c])],
     rows |-> [i \in 1..Len(d.rows) |->
                  [c \in 1..Len(d.columns) |->
                      IF c < decision_column(d)
                      THEN Interval(d.rows[i][c], cs[c])
                      ELSE d.rows[i][c]]]]

\* a quotient that is 1 when there is nothing to count
RatioOneOfNothing(num, den) ==
    IF den # 0 THEN [num |-> num, den |-> den] ELSE [num |-> 1, den |-> 1]

\* a quotient num / den of two counters; 0 is written 0 / 1
Ratio(num, den) ==
    IF den # 0 THEN [num |-> num, den |-> den] ELSE [num |-> 0, den |-> 1]

\* lines 215-220
FinalStats(st, d) ==
    [total_pairs |-> st.total_pairs,
     separated_pairs |-> st.separated_pairs,
     cuts_added |-> st.cuts_added,
     cuts_per_attribute |-> st.cuts_per_attribute,
     coverage |-> Ratio(st.separated_pairs, st.total_pairs),
     average_cuts_per_attribute |->
         Ratio(st.cuts_added, Len(attribute_columns(d)))]

(***************************************************************************)
(* The files handed to load_data.                                           *)
(***************************************************************************)
\* the rows of a table with k attribute columns and decisions drawn from D
RowsOf(k, D) == {Append(v, d) : v \in [1..k -> Values], d \in D}

TablesOf(k, D, maxRows) ==
    UNION {[1..n -> RowsOf(k, D)] : n \in 1..maxRows}

\* a size in bytes that is zero only for the empty file
SizeOf(columns, rows) == 1 + Len(columns) + Len(rows)

\* the file that holds the rows under columns of the given dtypes
FileOf(columns, rows) ==
    [exists |-> TRUE, size |-> SizeOf(columns, rows), columns |-> columns,
     rows |-> rows]

(***************************************************************************)
(* The well-formed tables.  The loop reads the rows of a table only through *)
(* the columns and the pairs of rows, so a table is taken once up to the    *)
(* order of its rows: the rows are listed in nondecreasing order of a key   *)
(* that numbers the possible rows.  radix[c] is the number of values a cell *)
(* of column c takes; the decision is "A" or "B".                           *)
(***************************************************************************)
RECURSIVE Weight(_, _)
\* the weight of column c in the key of a row; the decision has weight 1
Weight(radix, c) ==
    IF c = Len(radix) THEN 2 ELSE radix[c + 1] * Weight(radix, c + 1)

KeyCount(radix) == IF radix = <<>> THEN 2 ELSE radix[1] * Weight(radix, 1)

RowOfKey(radix, key) ==
    [c \in 1..(Len(radix) + 1) |->
        IF c <= Len(radix) THEN (key \div Weight(radix, c)) % radix[c]
        ELSE IF key % 2 = 0 THEN "A" ELSE "B"]

RECURSIVE NonDecreasing(_, _, _)
\* the nondecreasing sequences of n keys in lo..hi
NonDecreasing(n, lo, hi) ==
    IF n = 0 THEN {<<>>}
    ELSE UNION {{<<key>> \o t : t \in NonDecreasing(n - 1, key, hi)} :
                key \in lo..hi}

SortedTables(radix, n) ==
    {[i \in 1..n |-> RowOfKey(radix, t[i])] :
        t \in NonDecreasing(n, 0, KeyCount(radix) - 1)}

\* k float64 attribute columns and a decision column of strings
WellFormedColumns(k) ==
    [c \in 1..(k + 1) |-> IF c <= k THEN "float64" ELSE "object"]

\* the files of up to maxRows rows of k attributes with cells in 0..MaxVal
WellFormedFilesOf(k, maxRows) ==
    {FileOf(WellFormedColumns(k), rows) :
        rows \in UNION {SortedTables([c \in 1..k |-> MaxVal + 1], n) :
                        n \in 1..maxRows}}

WellFormedFiles(maxRows) ==
    UNION {WellFormedFilesOf(k, maxRows) : k \in 1..MaxAttrs}

\* wider tables: n rows of two attributes, the first with cells in 0..MaxVal
\* and the second with cells in 0..WideVal
WideFiles(n) ==
    {FileOf(WellFormedColumns(2), rows) :
        rows \in SortedTables(<<MaxVal + 1, WideVal + 1>>, n)}

\* a missing file, an empty file, a file of blank lines
UnreadableFiles(maxRows) ==
    {[exists |-> e, size |-> sz, columns |-> <<>>, rows |-> <<>>] :
        e \in BOOLEAN, sz \in 0..1}

\* a header and no row: pandas types every column object
HeaderOnlyFiles(maxRows) ==
    {FileOf([c \in 1..k |-> "object"], <<>>) : k \in 1..(MaxAttrs + 1)}

\* one column only: no attribute
SingleColumnFiles(maxRows) ==
    {FileOf(<<"object">>, rows) : rows \in TablesOf(0, Decisions, maxRows)}
    \cup
    {FileOf(<<"int64">>, rows) : rows \in TablesOf(0, NumericDecisions, maxRows)}

\* every column numeric: no decision column; the last column is of integers
AllNumericFilesOf(k, maxRows) ==
    {FileOf([c \in 1..(k + 1) |-> IF c <= k THEN "float64" ELSE "int64"], rows) :
        rows \in TablesOf(k, NumericDecisions, maxRows)}

AllNumericFiles(maxRows) ==
    UNION {AllNumericFilesOf(k, maxRows) : k \in 1..MaxAttrs}

\* the files of the script: well-formed ones of up to maxRows rows, and
\* unreadable or malformed ones of up to maxBadRows rows
Files(maxRows, maxBadRows) ==
    {WellFormedFiles(maxRows), UnreadableFiles(maxBadRows),
     HeaderOnlyFiles(maxBadRows), SingleColumnFiles(maxBadRows),
     AllNumericFiles(maxBadRows)}

(***************************************************************************)
(* The script.                                                              *)
(***************************************************************************)
NoStats == <<>>

NoResult == <<>>

\* the script is about to load the file f
Start(f) ==
    /\ file = f
    /\ pc = "load"
    /\ data = NoData
    /\ error = "none"
    /\ use_secondary_criterion = FALSE
    /\ object_pairs = <<>>
    /\ cuts = <<>>
    /\ separated_pairs = {}
    /\ stats = NoStats
    /\ best = InitialBest
    /\ main_result = NoResult
    /\ main_stats = NoStats
    /\ secondary_result = NoResult
    /\ secondary_stats = NoStats

Init == \E F \in Files(MaxRows, MaxBadRows) : \E f \in F : Start(f)

WideInit == \E f \in WideFiles(WideRows) : Start(f)

\* load_data(file), lines 12-57
load_data(f) ==
    IF ~f.exists THEN [raised |-> "FileNotFoundError", data |-> NoData]
    ELSE IF f.size = 0 THEN [raised |-> "ValueError", data |-> NoData]
    ELSE IF f.columns = <<>> THEN [raised |-> "ValueError", data |-> NoData]
    ELSE [raised |-> "none", data |-> [columns |-> f.columns, rows |-> f.rows]]

\* __main__, lines 263-265 and 279-280
LoadData ==
    /\ pc = "load"
    /\ error' = load_data(file).raised
    /\ data' = load_data(file).data
    /\ pc' = IF load_data(file).raised = "none" THEN "main" ELSE "failed"
    /\ UNCHANGED <<file, use_secondary_criterion, run_vars, main_result,
                   main_stats, secondary_result, secondary_stats>>

\* discretize_data, lines 104-120: the state before the first round
Enter(secondary) ==
    /\ use_secondary_criterion' = secondary
    /\ object_pairs' = generate_object_pairs(data, decision_column(data))
    /\ cuts' = [a \in Range(attribute_columns(data)) |-> <<>>]
    /\ separated_pairs' = {}
    /\ stats' = [total_pairs |-> Len(object_pairs'),
                 separated_pairs |-> 0,
                 cuts_added |-> 0,
                 cuts_per_attribute |-> [a \in Range(attribute_columns(data)) |-> 0]]
    /\ best' = InitialBest
    /\ pc' = "loop"

\* compare_criteria, line 228
CallMain ==
    /\ pc = "main"
    /\ Enter(FALSE)
    /\ UNCHANGED <<file, data, error, main_result, main_stats,
                   secondary_result, secondary_stats>>

\* compare_criteria, lines 231-233
CallSecondary ==
    /\ pc = "secondary"
    /\ Enter(TRUE)
    /\ UNCHANGED <<file, data, error, main_result, main_stats,
                   secondary_result, secondary_stats>>

\* a loop that leaves only on a negative gain
BreakOnNegativeGain(b) == b.gain < 0

\* lines 172-173: if best["gain"] == 0: break
Break(b) == b.gain = 0

\* a cut appended and the list left as it is
ApplyCutUnsorted(cs, b) == [cs EXCEPT ![b.attr] = Append(cs[b.attr], b.cut)]

\* lines 176-177: the cuts after the best cut is applied
ApplyCut(cs, b) == [cs EXCEPT ![b.attr] = sorted(Append(cs[b.attr], b.cut))]

\* discretize_data, lines 122-182: a pass of the loop that commits a cut
Round ==
    /\ pc = "loop"
    /\ \E b \in {RoundBest} :
           /\ b.gain # 0
           /\ best' = b
           /\ cuts' = ApplyCut(cuts, b)
           /\ separated_pairs' = separated_pairs \cup b.new_separations
           /\ stats' = [stats EXCEPT
                           !.cuts_added = @ + 1,
                           !.cuts_per_attribute[b.attr] = @ + 1,
                           !.separated_pairs = Cardinality(separated_pairs')]
    /\ UNCHANGED <<file, pc, data, error, use_secondary_criterion,
                   object_pairs, main_result, main_stats, secondary_result,
                   secondary_stats>>

\* discretize_data, lines 172-173 and 191-222: the pass that breaks, then the
\* interval mapping, the statistics and the return to compare_criteria
Finish ==
    /\ pc = "loop"
    /\ \E b \in {RoundBest} :
           /\ Break(b)
           /\ best' = b
    /\ stats' = FinalStats(stats, data)
    /\ IF use_secondary_criterion
       THEN /\ secondary_result' = Discretized(data, cuts)
            /\ secondary_stats' = stats'
            /\ pc' = "done"
            /\ UNCHANGED <<main_result, main_stats>>
       ELSE /\ main_result' = Discretized(data, cuts)
            /\ main_stats' = stats'
            /\ pc' = "secondary"
            /\ UNCHANGED <<secondary_result, secondary_stats>>
    /\ UNCHANGED <<file, data, error, use_secondary_criterion, object_pairs,
                   cuts, separated_pairs>>

Next == LoadData \/ CallMain \/ CallSecondary \/ Round \/ Finish

Spec == Init /\ [][Next]_vars

\* the script runs on: every enabled step is eventually taken
FairSpec == Spec /\ WF_vars(Next)

\* the same script on the wider tables
WideSpec == WideInit /\ [][Next]_vars

(***************************************************************************)
(* Vocabulary of the properties.                                            *)
(***************************************************************************)
\* a discretize_data call has set up its state: its locals are meaningful
InRun == pc \in {"loop", "secondary", "done"}

\* the call that ran last has returned: its cut lists are frozen
Returned == pc \in {"secondary", "done"}

\* the result and the statistics of the call that returned last
LastResult == IF pc = "secondary" THEN main_result ELSE secondary_result

LastStats == IF pc = "secondary" THEN main_stats ELSE secondary_stats

\* the pairs of rows of the table with different decisions
Discordant ==
    {p \in (1..Len(data.rows)) \X (1..Len(data.rows)) :
        /\ p[1] < p[2]
        /\ data.rows[p[1]][decision_column(data)]
               # data.rows[p[2]][decision_column(data)]}

\* the cut list cs of attribute a separates the rows of the pair p
Separates(p, a, cs) ==
    check_separation(data.rows[p[1]][a], data.rows[p[2]][a], cs)

\* the labels of the column a of a discretized table
LabelsOf(result, a) == {result.rows[i][a] : i \in 1..Len(result.rows)}

\* some committed cut list separates the rows of the pair p
SeparatedByCuts(p) == \E a \in DOMAIN cuts : Separates(p, a, cuts[a])

(***************************************************************************)
(* C1.  On any table the run with the secondary criterion adds at most as   *)
(* many cuts as the run with the main criterion: once both runs of          *)
(* compare_criteria have returned, secondary cuts_added <= main cuts_added. *)
(***************************************************************************)
SecondaryAddsNoMoreCuts ==
    pc = "done" => secondary_stats.cuts_added <= main_stats.cuts_added

(***************************************************************************)
(* C2.  In a pass of the loop no separated pair is lost; a pass that        *)
(* commits a cut makes the Separated-Pairs Set strictly larger; a pass that *)
(* leaves the set as it was commits nothing and is the pass that breaks.    *)
(***************************************************************************)
SeparatedPairsGrow ==
    [][pc = "loop" =>
          /\ separated_pairs \subseteq separated_pairs'
          /\ cuts' # cuts =>
                 Cardinality(separated_pairs') > Cardinality(separated_pairs)
          /\ separated_pairs' = separated_pairs =>
                 (cuts' = cuts /\ pc' # "loop")]_vars

\* after two committing passes of a run with the secondary criterion
SeparatedPairsGrowWitness ==
    /\ pc = "loop"
    /\ use_secondary_criterion
    /\ stats.cuts_added = 2
    /\ Cardinality(separated_pairs) >= 2

(***************************************************************************)
(* C3.  The greedy loop of discretize_data, entered under either criterion, *)
(* eventually reaches its break and returns: it cannot cycle or run for     *)
(* ever.                                                                    *)
(***************************************************************************)
LoopTerminates == (pc = "loop") ~> (pc \in {"secondary", "done"})

\* both runs have left the loop, each after two committing passes
LoopTerminatesWitness ==
    /\ pc = "done"
    /\ secondary_stats.cuts_added = 2
    /\ main_stats.cuts_added = 2

(***************************************************************************)
(* C4.  The cut lists.  In every state of a run each attribute's list is    *)
(* strictly increasing (so holds no value twice) and holds only values      *)
(* within the minimum and the maximum of the attribute's column.  A call    *)
(* starts with every list empty; a committing pass lengthens exactly one    *)
(* list by exactly one element, keeps the elements it had and leaves the    *)
(* other lists as they were; the pass that breaks changes no list.          *)
(***************************************************************************)
StrictlyIncreasing(s) == \A k \in 1..(Len(s) - 1) : s[k] < s[k + 1]

WithinObservedRange(a, s) ==
    \A k \in 1..Len(s) :
        /\ \E i \in 1..Len(data.rows) : data.rows[i][a] <= s[k]
        /\ \E i \in 1..Len(data.rows) : s[k] <= data.rows[i][a]

CutListsWellFormed ==
    InRun => \A a \in DOMAIN cuts :
                 StrictlyIncreasing(cuts[a]) /\ WithinObservedRange(a, cuts[a])

CutListsStep ==
    /\ (pc # "loop" /\ pc' = "loop") => \A a \in DOMAIN cuts' : cuts'[a] = <<>>
    /\ (pc = "loop" /\ pc' = "loop") =>
           \E a \in DOMAIN cuts :
               /\ Len(cuts'[a]) = Len(cuts[a]) + 1
               /\ Range(cuts[a]) \subseteq Range(cuts'[a])
               /\ \A o \in DOMAIN cuts \ {a} : cuts'[o] = cuts[o]
    /\ (pc = "loop" /\ pc' # "loop") => cuts' = cuts

CutLists == []CutListsWellFormed /\ [][CutListsStep]_vars

\* the second cut of an attribute was committed below its first cut
CutListsWitness ==
    /\ pc = "loop"
    /\ Len(attribute_columns(data)) = 2
    /\ best.gain > 0
    /\ Len(cuts[best.attr]) = 2
    /\ best.cut = cuts[best.attr][1]

(***************************************************************************)
(* C5.  In every state of a run the Separated-Pairs Set is exactly the set  *)
(* of the discordant pairs of the table that the committed cut list of some *)
(* attribute separates under check_separation.                              *)
(***************************************************************************)
SeparatedPairsExact ==
    InRun => separated_pairs = {p \in Discordant : SeparatedByCuts(p)}

\* some discordant pairs are separated and some are not yet
SeparatedPairsExactWitness ==
    /\ pc = "loop"
    /\ stats.cuts_added >= 1
    /\ separated_pairs # {}
    /\ separated_pairs # Discordant

(***************************************************************************)
(* C6.  Under the frozen cut list of an attribute, two values of the        *)
(* attribute that occur in the table receive the same interval label if and *)
(* only if no cut of the list lies strictly between them.                   *)
(***************************************************************************)
StrictlyBetween(v, w, s) ==
    \E k \in 1..Len(s) : (v < s[k] /\ s[k] < w) \/ (w < s[k] /\ s[k] < v)

SameLabelIffNoCutStrictlyBetween ==
    Returned =>
        \A a \in DOMAIN cuts : \A i, j \in 1..Len(data.rows) :
            (LastResult.rows[i][a] = LastResult.rows[j][a])
                <=> ~StrictlyBetween(data.rows[i][a], data.rows[j][a], cuts[a])

(***************************************************************************)
(* C6, amended.  Under the frozen cut list of an attribute, the label of a  *)
(* row is the interval of its value under that list alone, and two values   *)
(* of the attribute that occur in the table receive the same label if and   *)
(* only if no cut c of the list has min <= c < max for the two values: a    *)
(* cut equal to the smaller value separates them, a cut equal to the larger *)
(* value does not.                                                          *)
(***************************************************************************)
SameLabelIffNotSeparated ==
    Returned =>
        \A a \in DOMAIN cuts : \A i, j \in 1..Len(data.rows) :
            /\ LastResult.rows[i][a] = Interval(data.rows[i][a], cuts[a])
            /\ (LastResult.rows[i][a] = LastResult.rows[j][a])
                   <=> ~check_separation(data.rows[i][a], data.rows[j][a], cuts[a])

\* a committed cut equals a value of its column and parts it from a larger one
SameLabelWitness ==
    /\ Returned
    /\ \E a \in DOMAIN cuts : \E i, j \in 1..Len(data.rows) :
           /\ Len(cuts[a]) = 2
           /\ Cardinality(LabelsOf(LastResult, a)) = 3
           /\ data.rows[i][a] = cuts[a][1]
           /\ data.rows[i][a] < data.rows[j][a]
           /\ LastResult.rows[i][a] # LastResult.rows[j][a]

(***************************************************************************)
(* C7.  The coverage returned by discretize_data lies between 0 and 1, and  *)
(* it is 1 if and only if every discordant pair of the table is separated   *)
(* by the final cut lists.                                                  *)
(***************************************************************************)
CoverageInUnitInterval(c) == c.den > 0 /\ 0 <= c.num /\ c.num <= c.den

CoverageIsOne(c) == c.num = c.den

CoverageOneIffAllSeparated ==
    Returned =>
        /\ CoverageInUnitInterval(LastStats.coverage)
        /\ CoverageIsOne(LastStats.coverage)
               <=> (\A p \in Discordant : SeparatedByCuts(p))

(***************************************************************************)
(* C7, amended.  The coverage lies between 0 and 1; it is 1 if and only if  *)
(* the table has at least one discordant pair and every discordant pair is  *)
(* separated by the final cut lists; a table without discordant pairs has   *)
(* coverage 0.                                                              *)
(***************************************************************************)
CoverageOneIffSomeAndAllSeparated ==
    Returned =>
        /\ CoverageInUnitInterval(LastStats.coverage)
        /\ CoverageIsOne(LastStats.coverage)
               <=> (Discordant # {} /\ \A p \in Discordant : SeparatedByCuts(p))
        /\ Discordant = {} => LastStats.coverage.num = 0

\* a run returned coverage 1 after it separated every discordant pair with
\* two cuts
CoverageWitness ==
    /\ Returned
    /\ Cardinality(Discordant) >= 2
    /\ LastStats.cuts_added = 2
    /\ CoverageIsOne(LastStats.coverage)

(***************************************************************************)
(* C8.  load_data reports a malformed table instead of returning it: for a  *)
(* readable file with a single column, and for a readable file whose        *)
(* numeric columns are not all the columns but the last, it raises          *)
(* InvalidDataError.                                                        *)
(***************************************************************************)
Readable(f) == f.exists /\ f.size # 0 /\ f.columns # <<>>

Malformed(f) ==
    \/ Len(f.columns) < 2
    \/ Cardinality(numeric_cols(f)) # Len(f.columns) - 1

MalformedTableRejected ==
    (pc # "load" /\ Readable(file) /\ Malformed(file))
        => (error = "InvalidDataError" /\ data = NoData)

(***************************************************************************)
(* C9.  When the table has a discordant pair and one candidate cut of one   *)
(* attribute separates every discordant pair, the run with the main         *)
(* criterion commits exactly one cut, that cut separates every discordant   *)
(* pair, and the run returns coverage 1, cuts_added 1 and exactly two       *)
(* distinct interval labels in the column of the cut.                       *)
(***************************************************************************)
\* the candidate cut c of attribute a separates every discordant pair
SeparatesAll(a, c) == \A p \in Discordant : Separates(p, a, <<c>>)

SomeCutSeparatesAll ==
    /\ Discordant # {}
    /\ \E a \in Range(attribute_columns(data)) :
           \E c \in Range(find_possible_cuts(Column(data, a))) : SeparatesAll(a, c)

OneCutWhenOneCutSuffices ==
    (pc = "secondary" /\ SomeCutSeparatesAll) =>
        /\ main_stats.cuts_added = 1
        /\ CoverageIsOne(main_stats.coverage)
        /\ \E a \in DOMAIN cuts :
               /\ Len(cuts[a]) = 1
               /\ SeparatesAll(a, cuts[a][1])
               /\ Cardinality(LabelsOf(main_result, a)) = 2
               /\ \A o \in DOMAIN cuts \ {a} : cuts[o] = <<>>

\* the single cut was found on the second attribute, past candidates of the
\* first attribute that separate some of the pairs only
OneCutWitness ==
    /\ pc = "secondary"
    /\ SomeCutSeparatesAll
    /\ Cardinality(Discordant) = 2
    /\ Len(attribute_columns(data)) = 2
    /\ \E c \in Range(find_possible_cuts(Column(data, 1))) :
           \E p \in Discordant : Separates(p, 1, <<c>>)
    /\ Len(cuts[2]) = 1

(***************************************************************************)
(* C10.  On a table whose rows all share one decision value, both runs find *)
(* no discordant pair, commit no cut on any attribute, return coverage 0    *)
(* and label every attribute cell of every row with the unbounded interval. *)
(***************************************************************************)
OneDecision ==
    \A i, j \in 1..Len(data.rows) :
        data.rows[i][decision_column(data)] = data.rows[j][decision_column(data)]

NoOp(result, st) ==
    /\ st.total_pairs = 0
    /\ st.cuts_added = 0
    /\ \A a \in DOMAIN st.cuts_per_attribute : st.cuts_per_attribute[a] = 0
    /\ st.coverage.num = 0
    /\ \A i \in 1..Len(result.rows) :
           \A a \in Range(attribute_columns(data)) :
               result.rows[i][a] = "(-inf; inf)"

NoOpOnOneDecision ==
    /\ (InRun /\ OneDecision) =>
           (object_pairs = <<>> /\ \A a \in DOMAIN cuts : cuts[a] = <<>>)
    /\ (Returned /\ OneDecision) => NoOp(main_result, main_stats)
    /\ (pc = "done" /\ OneDecision) => NoOp(secondary_result, secondary_stats)

\* both runs returned on three rows of one decision whose cells differ
NoOpWitness ==
    /\ pc = "done"
    /\ OneDecision
    /\ Len(data.rows) = 3
    /\ Len(attribute_columns(data)) = 2
    /\ data.rows[1][1] # data.rows[3][1]
    /\ data.rows[1][2] # data.rows[2][2]

(***************************************************************************)
(* C11.  discretize_data returns a table with as many rows as its input, in *)
(* the same order, under the same columns: every attribute cell of row i is *)
(* the label of the interval of the frozen cut list that holds the value of *)
(* row i, and the decision of row i is the decision of row i of the input.  *)
(* No pass of the loop changes the input table, the list of discordant      *)
(* pairs or the candidate cuts of an attribute.                             *)
(***************************************************************************)
\* the label of the k-th interval of the cut list cs, k in 1..Len(cs) + 1
LabelAt(cs, k) ==
    IF cs = <<>> THEN "(-inf; inf)"
    ELSE "(" \o (IF k = 1 THEN "-inf" ELSE ToString(cs[k - 1])) \o "; "
             \o (IF k > Len(cs) THEN "inf)" ELSE ToString(cs[k]) \o "]")

\* label is the label of the interval of cs that holds the value v
LabelHolds(label, v, cs) ==
    \E k \in 1..(Len(cs) + 1) :
        /\ label = LabelAt(cs, k)
        /\ k > 1 => cs[k - 1] < v
        /\ k <= Len(cs) => v <= cs[k]

\* the result has the rows and the columns of the input, decisions in place
SameFrame(result) ==
    /\ Len(result.columns) = Len(data.columns)
    /\ Len(result.rows) = Len(data.rows)
    /\ \A i \in 1..Len(data.rows) :
           /\ Len(result.rows[i]) = Len(data.rows[i])
           /\ result.rows[i][decision_column(data)]
                  = data.rows[i][decision_column(data)]

FrameOfResult ==
    /\ Returned =>
           /\ SameFrame(LastResult)
           /\ \A i \in 1..Len(data.rows) : \A a \in DOMAIN cuts :
                  LabelHolds(LastResult.rows[i][a], data.rows[i][a], cuts[a])
    /\ pc = "done" => SameFrame(main_result)
    /\ InRun => data = [columns |-> file.columns, rows |-> file.rows]

FrameStep ==
    pc = "loop" =>
        /\ data' = data
        /\ object_pairs' = object_pairs
        /\ \A a \in Range(attribute_columns(data)) :
               find_possible_cuts(Column(data', a))
                   = find_possible_cuts(Column(data, a))

FramePreserved == []FrameOfResult /\ [][FrameStep]_vars

\* both runs returned on three rows that carry three different labels of the
\* first attribute, in decisions that are not all equal
FramePreservedWitness ==
    /\ pc = "done"
    /\ Len(data.rows) = 3
    /\ data.rows[1][decision_column(data)] # data.rows[2][decision_column(data)]
    /\ Cardinality(LabelsOf(secondary_result, 1)) = 3
    /\ Cardinality(LabelsOf(main_result, 1)) = 3

(***************************************************************************)
(* C12.  On any table the coverage returned by the run with the main        *)
(* criterion is at least the coverage returned by the run with the          *)
(* secondary criterion.                                                     *)
(***************************************************************************)
\* the quotient c is at least the quotient d (denominators are positive)
AtLeast(c, d) == c.num * d.den >= d.num * c.den

MainCoversNoLess ==
    pc = "done" => AtLeast(main_stats.coverage, secondary_stats.coverage)

\* the two runs returned different tables, each with some pair separated and
\* some pair left unseparated
MainCoversNoLessWitness ==
    /\ pc = "done"
    /\ main_result # secondary_result
    /\ 0 < secondary_stats.coverage.num
    /\ secondary_stats.coverage.num < secondary_stats.coverage.den
    /\ 0 < main_stats.coverage.num

(***************************************************************************)
(* C13.  The list generate_object_pairs returns holds exactly the pairs     *)
(* (i, j) of rows with i < j whose decisions differ: each entry is such a   *)
(* pair, no entry occurs twice, and every such pair is an entry.            *)
(***************************************************************************)
ObjectPairsExact ==
    InRun =>
        /\ \A k \in 1..Len(object_pairs) :
               /\ object_pairs[k][1] \in 1..Len(data.rows)
               /\ object_pairs[k][2] \in 1..Len(data.rows)
               /\ object_pairs[k][1] < object_pairs[k][2]
               /\ data.rows[object_pairs[k][1]][decision_column(data)]
                      # data.rows[object_pairs[k][2]][decision_column(data)]
        /\ \A k, l \in 1..Len(object_pairs) :
               k # l => object_pairs[k] # object_pairs[l]
        /\ \A i, j \in 1..Len(data.rows) :
               (i < j /\ data.rows[i][decision_column(data)]
                             # data.rows[j][decision_column(data)])
                   => \E k \in 1..Len(object_pairs) : object_pairs[k] = <<i, j>>

\* a run on three rows of which two pairs are discordant and one is not
ObjectPairsExactWitness ==
    /\ pc = "loop"
    /\ Len(data.rows) = 3
    /\ Len(object_pairs) = 2
    /\ data.rows[1][decision_column(data)] = data.rows[2][decision_column(data)]

(***************************************************************************)
(* The candidates of a round, for the claims about the selection.  A        *)
(* candidate is a position <<a, k>>: the k-th candidate cut of attribute a. *)
(* The loop visits the candidates by attribute, then by k.                  *)
(***************************************************************************)
Candidates ==
    UNION {{<<a, k>> : k \in 1..Len(find_possible_cuts(Column(data, a)))} :
           a \in Range(attribute_columns(data))}

CandidateCut(q) == find_possible_cuts(Column(data, q[1]))[q[2]]

\* the candidate q is visited before the candidate r
Earlier(q, r) == q[1] < r[1] \/ (q[1] = r[1] /\ q[2] < r[2])

\* the gain of the cut c on attribute a when the committed cut lists are cs
\* and the separated pairs are sep
CandidateGain(cs, sep, a, c) ==
    Cardinality({p \in Range(object_pairs) :
                    /\ p \notin sep
                    /\ Separates(p, a, sorted(cs[a] \o <<c>>))})

\* the gain of the candidate q in the current round
GainOf(q) == CandidateGain(cuts, separated_pairs, q[1], CandidateCut(q))

\* the state of the round that committed best: its cut lists and its
\* separated pairs
PrevCuts ==
    [cuts EXCEPT ![best.attr] = SelectSeq(@, LAMBDA x : x # best.cut)]

PrevSeparated == separated_pairs \ best.new_separations

PrevGainOf(q) == CandidateGain(PrevCuts, PrevSeparated, q[1], CandidateCut(q))

\* the step commits the cut of the candidate q
Commits(q) ==
    /\ best'.attr = q[1]
    /\ best'.cut = CandidateCut(q)
    /\ best'.gain = GainOf(q)
    /\ Range(cuts'[q[1]]) = Range(cuts[q[1]]) \cup {CandidateCut(q)}

(***************************************************************************)
(* C14.  A committing round under the main criterion commits the first, in  *)
(* the order of the visit, of the candidates whose gain is the maximum over *)
(* all candidates of the round; the loop breaks exactly in the round in     *)
(* which every candidate has gain 0.                                        *)
(***************************************************************************)
MainSelectionStep ==
    (pc = "loop" /\ ~use_secondary_criterion) =>
        /\ pc' = "loop" =>
               \E q \in Candidates :
                   /\ Commits(q)
                   /\ GainOf(q) > 0
                   /\ \A r \in Candidates :
                          /\ GainOf(r) <= GainOf(q)
                          /\ Earlier(r, q) => GainOf(r) < GainOf(q)
        /\ pc' # "loop" <=> \A r \in Candidates : GainOf(r) = 0

MainSelection == [][MainSelectionStep]_vars

\* the committed candidate had a smaller positive gain before it and the
\* same gain after it, on another cut, in its round
MainSelectionWitness ==
    /\ pc = "loop"
    /\ ~use_secondary_criterion
    /\ best.gain > 0
    /\ \E q, r, e \in Candidates :
           /\ q[1] = best.attr
           /\ CandidateCut(q) = best.cut
           /\ Earlier(e, q)
           /\ 0 < PrevGainOf(e)
           /\ PrevGainOf(e) < best.gain
           /\ Earlier(q, r)
           /\ PrevGainOf(r) = best.gain
           /\ <<r[1], CandidateCut(r)>> # <<q[1], CandidateCut(q)>>

(***************************************************************************)
(* C15.  A committing round under the secondary criterion commits a         *)
(* candidate of positive gain whose resulting cut count (the committed cuts *)
(* of its attribute plus one) is the smallest among the candidates of       *)
(* positive gain; among those of that count it has the largest gain; among  *)
(* those of that count and gain it is the first in the order of the visit.  *)
(* The loop breaks exactly in the round in which no candidate has a         *)
(* positive gain.                                                           *)
(***************************************************************************)
\* the cut count of the attribute of q once the cut of q is added
CountOf(q) == Len(cuts[q[1]]) + 1

SecondarySelectionStep ==
    (pc = "loop" /\ use_secondary_criterion) =>
        /\ pc' = "loop" =>
               \E q \in Candidates :
                   /\ Commits(q)
                   /\ GainOf(q) > 0
                   /\ best'.cuts_count = CountOf(q)
                   /\ \A r \in Candidates :
                          GainOf(r) > 0 =>
                              /\ CountOf(q) <= CountOf(r)
                              /\ CountOf(r) = CountOf(q) => GainOf(r) <= GainOf(q)
                              /\ (CountOf(r) = CountOf(q) /\ Earlier(r, q))
                                     => GainOf(r) < GainOf(q)
        /\ pc' # "loop" <=> ~\E r \in Candidates : GainOf(r) > 0

SecondarySelection == [][SecondarySelectionStep]_vars

\* the committed candidate won by its cut count against a candidate of a
\* larger gain on an attribute that had a cut already
SecondarySelectionWitness ==
    /\ pc = "loop"
    /\ use_secondary_criterion
    /\ best.gain > 0
    /\ \E r \in Candidates :
           /\ PrevGainOf(r) > best.gain
           /\ Len(PrevCuts[r[1]]) + 1 > best.cuts_count

(***************************************************************************)
(* C16.  For an attribute whose column holds k distinct values,             *)
(* find_possible_cuts returns k - 1 candidates in strictly increasing       *)
(* order, the i-th being the midpoint of the i-th and the (i + 1)-th        *)
(* distinct value in sorted order; no pass of the loop changes the list; an *)
(* attribute whose column holds one value has no candidate and never        *)
(* receives a cut.                                                          *)
(***************************************************************************)
\* the distinct values of the column of attribute a, in increasing order
DistinctValues(a) == SortedSet(Range(Column(data, a)))

CandidateListWellFormed(a) ==
    /\ Len(find_possible_cuts(Column(data, a))) = Len(DistinctValues(a)) - 1
    /\ \A i \in 1..(Len(DistinctValues(a)) - 1) :
           find_possible_cuts(Column(data, a))[i]
               = Midpoint(DistinctValues(a)[i], DistinctValues(a)[i + 1])
    /\ StrictlyIncreasing(find_possible_cuts(Column(data, a)))
    /\ Len(DistinctValues(a)) = 1 =>
           (find_possible_cuts(Column(data, a)) = <<>> /\ cuts[a] = <<>>)

CandidateListsWellFormed ==
    (InRun /\ data.rows # <<>>) =>
        \A a \in Range(attribute_columns(data)) : CandidateListWellFormed(a)

CandidateListsKept ==
    pc = "loop" =>
        \A a \in Range(attribute_columns(data)) :
            find_possible_cuts(Column(data', a))
                = find_possible_cuts(Column(data, a))

CandidateLists == []CandidateListsWellFormed /\ [][CandidateListsKept]_vars

(***************************************************************************)
(* C17.  When the loop of a run has ended, under either criterion, a        *)
(* discordant pair is in the Separated-Pairs Set if and only if its two     *)
(* rows differ in the value of some attribute; so the two runs of           *)
(* compare_criteria end with the same set of separated pairs, the same      *)
(* separated_pairs count and the same coverage.                             *)
(***************************************************************************)
\* the rows of the pair p differ in the value of some attribute
DifferOnSomeAttribute(p) ==
    \E a \in Range(attribute_columns(data)) :
        data.rows[p[1]][a] # data.rows[p[2]][a]

\* the discordant pairs whose rows carry different labels in the result
SeparatedIn(result) ==
    {p \in Discordant :
        \E a \in Range(attribute_columns(data)) :
            result.rows[p[1]][a] # result.rows[p[2]][a]}

BothRunsSeparateAlike ==
    pc = "done" =>
        /\ SeparatedIn(main_result) = separated_pairs
        /\ main_stats.separated_pairs = secondary_stats.separated_pairs
        /\ main_stats.coverage = secondary_stats.coverage

SeparatedIffRowsDiffer ==
    /\ Returned =>
           \A p \in Discordant :
               p \in separated_pairs <=> DifferOnSomeAttribute(p)
    /\ BothRunsSeparateAlike

(***************************************************************************)
(* C18.  Under the main criterion the gain of the cut a round commits is    *)
(* never larger than the gain of the cut the round before it committed, and *)
(* a committing round never increases the gain of any candidate.            *)
(***************************************************************************)
MainGainsStep ==
    (pc = "loop" /\ ~use_secondary_criterion /\ pc' = "loop") =>
        /\ best.gain > 0 => best'.gain <= best.gain
        /\ \A q \in Candidates :
               CandidateGain(cuts', separated_pairs', q[1], CandidateCut(q))
                   <= GainOf(q)

MainGainsNeverGrow == [][MainGainsStep]_vars

\* the second committing round of a run with the main criterion gained less
\* than the first
MainGainsWitness ==
    /\ pc = "loop"
    /\ ~use_secondary_criterion
    /\ stats.cuts_added = 2
    /\ best.gain > 0
    /\ best.gain < stats.separated_pairs - best.gain

====
